---- MODULE Spec2Model ----
(***************************************************************************)
(* tap-bigmarker: the override hooks of BigMarkerStream (client.py) and    *)
(* the stream declarations of streams.py, as a state machine.              *)
(*                                                                         *)
(*   Spec       one sync invocation of a stream: the page loop, each       *)
(*              request sent through the backoff wrapper built by          *)
(*              request_decorator, with validate_response, parse_response  *)
(*              and get_next_page_token applied to every response.         *)
(*   SpecHooks  the hooks as pure functions, applied to enumerated         *)
(*              responses, stream configurations and previous tokens.      *)
(***************************************************************************)
EXTENDS Integers, Sequences, FiniteSets, TLC

VARIABLES
    stream,                 \* name of the stream class being synced
    tolerated_http_errors,  \* class attribute (client.py:33)
    extra_retry_statuses,   \* inherited class attribute read at client.py:143
    has_pagination,         \* class attribute (client.py:30, streams.py)
    pc,                     \* position of the sync
    next_page_token,        \* loop variable of the page loop
    params,                 \* URL parameters of the prepared request
    tries,                  \* attempts made for the current request
    session,                \* self._requests_session
    resets,                 \* close() calls made during the current request
    handlerCalls,           \* backoff_handler calls during the current request
    lastClosed,             \* the session the handler closed last in this request
    response,               \* response of the last attempt
    error,                  \* exception in flight
    seconds,                \* duration of the sleep in progress
    yielded,                \* records yielded from the last response
    jsonCalls,              \* response.json() calls on the last response
    warned,                 \* warnings logged for the last response
    requestsMade,           \* requests prepared in this sync
    sentTokens,             \* page tokens of the requests prepared, in order
    nonEmptyPages,          \* pages that yielded at least one record
    hookIn,                 \* SpecHooks: previous_token handed to the hook
    hookOut,                \* SpecHooks: results of the hooks
    clock,                  \* SpecConf: wall clock, epoch seconds
    last_date,              \* SpecConf: state['last_date'] of ConferencesStream
    cpc,                    \* SpecConf: position of the Conferences sync
    ctoken,                 \* SpecConf: next_page_token of its page loop
    cparams,                \* SpecConf: URL parameters of its prepared request
    ctries,                 \* SpecConf: attempts made for the current request
    cpageLeft,              \* SpecConf: records of the page not yet yielded
    cpagesServed,           \* SpecConf: pages with records served in this sync
    conf,                   \* SpecConf: what the run has observed of its syncs
    tpc,                    \* SpecTree: position of the parent/child traversal
    tparent,                \* SpecTree: the parent stream being synced
    tp,                     \* SpecTree: page loop of the parent stream
    tcontext,               \* SpecTree: context handed to the child streams
    tdone,                  \* SpecTree: children synced for the current record
    torder,                 \* SpecTree: the order the child streams are synced in
    tc                      \* SpecTree: page loop of the child being synced

vars == << stream, tolerated_http_errors, extra_retry_statuses, has_pagination,
           pc, next_page_token, params, tries, session, resets, handlerCalls,
           response, error, seconds, yielded, jsonCalls, warned, requestsMade,
           sentTokens, nonEmptyPages, lastClosed, hookIn, hookOut,
           clock, last_date, cpc, ctoken, cparams, ctries, cpageLeft,
           cpagesServed, conf, tpc, tparent, tp, tcontext, tdone, torder, tc >>

confVars == << clock, last_date, cpc, ctoken, cparams, ctries, cpageLeft,
              cpagesServed, conf >>

treeVars == << tpc, tparent, tp, tcontext, tdone, torder, tc >>

(***************************************************************************)
(* Bounds of the model.                                                    *)
(***************************************************************************)
MaxPages == 2       \* requests the API answers with a body that holds records
MaxRecords == 2     \* records on one page
MaxToken == 4       \* previous tokens enumerated for the hooks

(***************************************************************************)
(* Python values.                                                          *)
(***************************************************************************)
None == -1          \* Python's None: no token, no session, no response
NotJson == -3       \* a body response.json() cannot decode
NoPath == -2        \* a JSON body without the records path

Truthy(x) == x # None /\ x # 0

(***************************************************************************)
(* Class attributes of BigMarkerStream.                                    *)
(***************************************************************************)
per_page == 10
backoff_max_tries == 9999
interval == 10
ResetAfterTries == 5
DefaultTolerated == {401}
DefaultExtraRetry == {429}

PaginatedStreams == {"conferences_attendees"}
UnpaginatedStreams == {"channels"}
Streams == PaginatedStreams \cup UnpaginatedStreams

\* client.py:29 and the overrides at streams.py:141, 162, 173, 185, 197, 209
page_key(s) ==
    IF s \in {"conferences_attendees", "conferences_registrations_live",
              "conferences_attendees_live", "conferences_registrations_no_shows",
              "conferences_registrations_qa", "conferences_attendees_on_demand"}
    THEN "current_page" ELSE "page"
rest_method(s) == IF s = "conferences" THEN "POST" ELSE "GET"

\* streams.py: the classes whose parent_stream_type is ChannelsStream
ChannelsChildren == {"channels_subscribers", "channels_admins"}

\* streams.py: the classes whose parent_stream_type is ConferencesStream
ConferencesChildren ==
    {"conferences_handouts", "conferences_surveys", "conferences_presenters",
     "conferences_attendees", "conferences_registrants",
     "conferences_registrations_live", "conferences_attendees_live",
     "conferences_registrations_no_shows", "conferences_registrations_qa",
     "conferences_attendees_on_demand"}

ParentStreams == {"channels", "conferences"}
AllStreams == ParentStreams \cup ChannelsChildren \cup ConferencesChildren

parent_stream_type(s) ==
    IF s \in ChannelsChildren THEN "channels"
    ELSE IF s \in ConferencesChildren THEN "conferences"
    ELSE "none"

\* singer_sdk: a stream's child_streams are the streams naming it as parent.
child_streams(p) == {s \in AllStreams : parent_stream_type(s) = p}

\* Mutation: the child streams take the replication method of their parent.
replication_method_of_parent(s) ==
    IF s = "conferences" \/ s \in ConferencesChildren
    THEN "INCREMENTAL" ELSE "FULL_TABLE"

\* streams.py:58 (conferences); every other class sets FULL_TABLE.
replication_method(s) == IF s = "conferences" THEN "INCREMENTAL" ELSE "FULL_TABLE"

\* The path attribute of each class, split at "/".
path(s) ==
    CASE s = "channels" -> << "channels" >>
      [] s = "channels_subscribers" -> << "channels", "{channel_id}", "subscribers" >>
      [] s = "channels_admins" -> << "channel_admins", "{channel_id}" >>
      [] s = "conferences" -> << "conferences", "search" >>
      [] s = "conferences_handouts" -> << "conferences", "{conference_id}", "handouts" >>
      [] s = "conferences_surveys" -> << "conferences", "survey", "{conference_id}" >>
      [] s = "conferences_presenters" -> << "conferences", "{conference_id}", "presenters" >>
      [] s = "conferences_attendees" -> << "conferences", "{conference_id}", "attendees" >>
      [] s = "conferences_registrants" ->
            << "conferences", "registrations_with_fields", "{conference_id}" >>
      [] s = "conferences_registrations_live" ->
            << "reporting", "conferences", "registrations", "{conference_id}" >>
      [] s = "conferences_attendees_live" ->
            << "reporting", "conferences", "live_attendees", "{conference_id}" >>
      [] s = "conferences_registrations_no_shows" ->
            << "reporting", "conferences", "no_shows", "{conference_id}" >>
      [] s = "conferences_registrations_qa" ->
            << "reporting", "conferences", "q_and_a_transcript", "{conference_id}" >>
      [] s = "conferences_attendees_on_demand" ->
            << "reporting", "conferences", "on_demand_attendees", "{conference_id}" >>
      [] OTHER -> << >>

\* The has_pagination attribute of each class (client.py:30 by default).
stream_has_pagination(s) ==
    s \notin {"channels", "channels_subscribers", "channels_admins",
              "conferences_handouts", "conferences_surveys",
              "conferences_presenters"}

(***************************************************************************)
(* Responses. The body is abstracted to what the hooks read of it: whether *)
(* it decodes as JSON and how many records sit at records_jsonpath.        *)
(***************************************************************************)
Bodies == {NotJson, NoPath} \cup (0..MaxRecords)
Reason(status) ==
    CASE status = 200 -> "OK"
      [] status = 401 -> "Unauthorized"
      [] status = 404 -> "Not Found"
      [] status = 429 -> "Too Many Requests"
      [] status = 500 -> "Internal Server Error"
      [] OTHER -> "Unknown"

NoError == [kind |-> "none"]

\* RESTStream.response_error_message, called at client.py:146 and :149
response_error_message(r) ==
    [status |-> r.status_code,
     type |-> IF 400 <= r.status_code /\ r.status_code < 500
              THEN "Client" ELSE "Server",
     reason |-> r.reason]

\* Mutation: the client-error range misses its lower end.
validate_response_open_range(r, tolerated, extra) ==
    IF r.status_code \in tolerated
    THEN [kind |-> "none", warned |-> TRUE]
    ELSE IF r.status_code \in extra
            \/ (500 <= r.status_code /\ r.status_code < 600)
    THEN [kind |-> "RetriableAPIError", msg |-> response_error_message(r),
          warned |-> FALSE]
    ELSE IF 400 < r.status_code /\ r.status_code < 500
    THEN [kind |-> "FatalAPIError", msg |-> response_error_message(r),
          warned |-> FALSE]
    ELSE [kind |-> "none", warned |-> FALSE]

\* Mutation: the client-error branch is tested before the retriable one.
validate_response_fatal_first(r, tolerated, extra) ==
    IF r.status_code \in tolerated
    THEN [kind |-> "none", warned |-> TRUE]
    ELSE IF 400 <= r.status_code /\ r.status_code < 500
    THEN [kind |-> "FatalAPIError", msg |-> response_error_message(r),
          warned |-> FALSE]
    ELSE IF r.status_code \in extra
            \/ (500 <= r.status_code /\ r.status_code < 600)
    THEN [kind |-> "RetriableAPIError", msg |-> response_error_message(r),
          warned |-> FALSE]
    ELSE [kind |-> "none", warned |-> FALSE]

\* client.py:132-150. The result is the exception raised (or none) and
\* whether the warning of the tolerated branch was logged.
validate_response(r, tolerated, extra) ==
    IF r.status_code \in tolerated
    THEN [kind |-> "none", warned |-> TRUE]
    ELSE IF r.status_code \in extra
            \/ (500 <= r.status_code /\ r.status_code < 600)
    THEN [kind |-> "RetriableAPIError", msg |-> response_error_message(r),
          warned |-> FALSE]
    ELSE IF 400 <= r.status_code /\ r.status_code < 500
    THEN [kind |-> "FatalAPIError", msg |-> response_error_message(r),
          warned |-> FALSE]
    ELSE [kind |-> "none", warned |-> FALSE]

\* Mutation: the tolerated statuses are not tested before the body is parsed.
parse_response_untolerated(r, tolerated) ==
    IF r.body = NotJson
    THEN [records |-> 0, exc |-> "JSONDecodeError", json |-> 1]
    ELSE [records |-> IF r.body = NoPath THEN 0 ELSE r.body,
          exc |-> "none", json |-> 1]

\* client.py:95-99. A generator: "return []" ends it with nothing yielded.
parse_response(r, tolerated) ==
    IF r.status_code \in tolerated
    THEN [records |-> 0, exc |-> "none", json |-> 0]
    ELSE IF r.body = NotJson
    THEN [records |-> 0, exc |-> "JSONDecodeError", json |-> 1]
    ELSE [records |-> IF r.body = NoPath THEN 0 ELSE r.body,
          exc |-> "none", json |-> 1]

\* client.py:72-75: the `len` found at the records path, 0 when no match
RecordsLen(body) == IF body = NoPath THEN 0 ELSE body

\* Mutation: an unset previous token counts as page 0.
get_next_page_token_from_zero(r, previous_token, paginated) ==
    IF ~paginated
    THEN [token |-> None, exc |-> "none", json |-> 0]
    ELSE IF r.body = NotJson
    THEN [token |-> None, exc |-> "JSONDecodeError", json |-> 1]
    ELSE IF RecordsLen(r.body) > 0
    THEN [token |-> (IF Truthy(previous_token) THEN previous_token ELSE 0) + 1,
          exc |-> "none", json |-> 1]
    ELSE [token |-> None, exc |-> "none", json |-> 1]

\* Mutation: has_pagination is not consulted.
get_next_page_token_no_opt_out(r, previous_token, paginated) ==
    IF r.body = NotJson
    THEN [token |-> None, exc |-> "JSONDecodeError", json |-> 1]
    ELSE IF RecordsLen(r.body) > 0
    THEN [token |-> (IF Truthy(previous_token) THEN previous_token ELSE 1) + 1,
          exc |-> "none", json |-> 1]
    ELSE [token |-> None, exc |-> "none", json |-> 1]

\* Mutation: an empty page still asks for the next one.
get_next_page_token_on_empty(r, previous_token, paginated) ==
    IF ~paginated
    THEN [token |-> None, exc |-> "none", json |-> 0]
    ELSE IF r.body = NotJson
    THEN [token |-> None, exc |-> "JSONDecodeError", json |-> 1]
    ELSE IF RecordsLen(r.body) >= 0
    THEN [token |-> (IF Truthy(previous_token) THEN previous_token ELSE 1) + 1,
          exc |-> "none", json |-> 1]
    ELSE [token |-> None, exc |-> "none", json |-> 1]

\* client.py:50-80
get_next_page_token(r, previous_token, paginated) ==
    IF ~paginated
    THEN [token |-> None, exc |-> "none", json |-> 0]
    ELSE IF r.body = NotJson
    THEN [token |-> None, exc |-> "JSONDecodeError", json |-> 1]
    ELSE IF RecordsLen(r.body) > 0
    THEN [token |-> (IF Truthy(previous_token) THEN previous_token ELSE 1) + 1,
          exc |-> "none", json |-> 1]
    ELSE [token |-> None, exc |-> "none", json |-> 1]

\* Mutation: the page size is sent with the first page only.
get_url_params_first_page_size(s, token) ==
    [page_key |-> page_key(s),
     page |-> IF rest_method(s) = "GET" /\ Truthy(token) THEN token ELSE None,
     per_page |-> IF rest_method(s) = "GET" /\ ~Truthy(token)
                  THEN per_page ELSE None]

\* client.py:82-93 (GET streams)
get_url_params(s, token) ==
    [page_key |-> page_key(s),
     page |-> IF rest_method(s) = "GET" /\ Truthy(token) THEN token ELSE None,
     per_page |-> IF rest_method(s) = "GET" /\ Truthy(per_page)
                  THEN per_page ELSE None]

\* client.py:152-153: backoff.constant(interval=10)
backoff_wait_generator == interval

\* backoff.on_exception is called at client.py:156 without a jitter argument,
\* so the library's default full jitter applies: the sleep is drawn from
\* [0, value] (whole seconds here).
Jitter(value) == 0..value

\* Mutation: every API error is retried.
RetriedExceptionsWithFatal ==
    {"RetriableAPIError", "FatalAPIError", "ReadTimeout", "ConnectionError"}

\* request_decorator, client.py:158-162: the exceptions that are retried
RetriedExceptions == {"RetriableAPIError", "ReadTimeout", "ConnectionError"}

\* Mutation: the handler resets one try early.
ShouldResetFromFifth(t) == t >= ResetAfterTries

\* client.py:169
ShouldReset(t) == t > ResetAfterTries

(***************************************************************************)
(* One sync invocation of a stream.                                        *)
(***************************************************************************)
\* An error response carries no records: its body is not JSON, or is a JSON
\* error object without the records path.
Statuses == {200, 401, 404, 429, 500}
ErrorBodies == {NotJson, NoPath}
Responses == { r \in [status_code : Statuses, reason : {Reason(st) : st \in Statuses},
                      body : Bodies] :
               /\ r.reason = Reason(r.status_code)
               /\ r.status_code >= 400 => r.body \in ErrorBodies }
NoResponse == [status_code |-> None, reason |-> "", body |-> None]
NoParams == [page_key |-> "", page |-> None, per_page |-> None]
NoHook == [hook |-> "none"]

NoConfParams == [page_key |-> "", page |-> None, per_page |-> None,
                 start_time |-> None]
NoConf == [syncs |-> 0, writes |-> 0, started |-> None, before |-> None,
           firstStart |-> None, lastYield |-> None, prevStart |-> None,
           prevAborted |-> FALSE]

NoContext == [channel_id |-> None, conference_id |-> None]
NoRecord == [id |-> None, channel_id |-> None]
NoUrl == [path |-> << >>, id |-> None]
NoParentLoop == [token |-> None, params |-> NoParams, left |-> 0, len |-> 0,
                 served |-> 0, record |-> NoRecord, tries |-> 0]
NoChildLoop == [stream |-> "none", token |-> None, params |-> NoParams,
                url |-> NoUrl, tries |-> 0, len |-> 0, served |-> 0,
                requests |-> 0]

\* No traversal is running.
TreeIdle ==
    /\ tpc = "off"
    /\ tparent = "none"
    /\ tp = NoParentLoop
    /\ tcontext = NoContext
    /\ tdone = {}
    /\ torder = << >>
    /\ tc = NoChildLoop

\* No Conferences sync is running.
ConfIdle ==
    /\ TreeIdle
    /\ clock = 0
    /\ last_date = None
    /\ cpc = "off"
    /\ ctoken = None
    /\ cparams = NoConfParams
    /\ ctries = 0
    /\ cpageLeft = 0
    /\ cpagesServed = 0
    /\ conf = NoConf

Init ==
    /\ ConfIdle
    /\ stream \in Streams
    /\ tolerated_http_errors = DefaultTolerated
    /\ extra_retry_statuses = DefaultExtraRetry
    /\ has_pagination = (stream \in PaginatedStreams)
    /\ pc = "prepare"
    /\ next_page_token = None
    /\ params = NoParams
    /\ tries = 0
    /\ session = None
    /\ resets = 0
    /\ handlerCalls = 0
    /\ lastClosed = None
    /\ response = NoResponse
    /\ error = NoError
    /\ seconds = 0
    /\ yielded = 0
    /\ jsonCalls = 0
    /\ warned = FALSE
    /\ requestsMade = 0
    /\ sentTokens = << >>
    /\ nonEmptyPages = 0
    /\ hookIn = None
    /\ hookOut = NoHook

hookVars == << hookIn, hookOut >>
configVars == << stream, tolerated_http_errors, extra_retry_statuses,
                 has_pagination >>

\* The top of the page loop: prepare_request builds the request from
\* get_url_params; the backoff wrapper starts counting tries afresh. A session
\* left by an earlier request is renamed 0: sessions are named by the try of
\* the current request that created them.
Prepare ==
    /\ pc = "prepare"
    /\ params' = get_url_params(stream, next_page_token)
    /\ sentTokens' = Append(sentTokens, next_page_token)
    /\ requestsMade' = requestsMade + 1
    /\ tries' = 0
    /\ resets' = 0
    /\ handlerCalls' = 0
    /\ lastClosed' = None
    /\ session' = IF session = None THEN None ELSE 0
    /\ response' = NoResponse
    /\ yielded' = 0
    /\ jsonCalls' = 0
    /\ warned' = FALSE
    /\ pc' = "send"
    /\ UNCHANGED << configVars, next_page_token, error, seconds, nonEmptyPages,
                    hookVars, confVars,
                    treeVars >>

\* RESTStream.requests_session: the session is created when there is none.
requests_session(s, t) == IF s = None THEN t ELSE s

\* Mutation: the ceiling is compared after the increment, allowing one try more.
request_decorator_one_more(exc, t) ==
    IF exc \in {"RetriableAPIError", "ReadTimeout", "ConnectionError"}
       /\ t <= backoff_max_tries
    THEN "backoff" ELSE "failed"

\* What the backoff wrapper does with an exception raised by an attempt:
\* retry the listed exceptions until max_tries attempts were made.
request_decorator(exc, t) ==
    IF exc \in RetriedExceptions /\ t # backoff_max_tries
    THEN "backoff" ELSE "failed"

\* One attempt that ends in a network-level exception.
AttemptNetworkError ==
    /\ pc = "send"
    /\ \E exc \in {"ReadTimeout", "ConnectionError"} :
        /\ tries' = tries + 1
        /\ session' = requests_session(session, tries')
        /\ error' = [kind |-> exc]
        /\ pc' = request_decorator(exc, tries')
    /\ UNCHANGED << configVars, next_page_token, params, resets, handlerCalls,
                    response, seconds, yielded, jsonCalls, warned, requestsMade,
                    sentTokens, nonEmptyPages, lastClosed,
                    hookVars, confVars,
                    treeVars >>

\* One attempt that receives a response, which validate_response classifies.
\* The API serves at most MaxPages non-empty pages.
AttemptResponse ==
    /\ pc = "send"
    /\ \E r \in Responses :
        /\ (r.body > 0) => requestsMade <= MaxPages
        /\ LET v == validate_response(r, tolerated_http_errors,
                                      extra_retry_statuses)
           IN /\ tries' = tries + 1
              /\ session' = requests_session(session, tries')
              /\ response' = r
              /\ warned' = v.warned
              /\ error' = IF v.kind = "none" THEN NoError
                          ELSE [kind |-> v.kind, msg |-> v.msg]
              /\ pc' = IF v.kind = "none" THEN "parse"
                       ELSE request_decorator(v.kind, tries')
    /\ UNCHANGED << configVars, next_page_token, params, resets, handlerCalls,
                    seconds, yielded, jsonCalls, requestsMade, sentTokens,
                    nonEmptyPages, lastClosed,
                    hookVars, confVars,
                    treeVars >>

\* Mutation: the session is reset only by the first backoff past the threshold.
backoff_handler_once(s, t) == IF t = ResetAfterTries + 1 THEN None ELSE s

\* Mutation: the session is closed but the reference to it is kept.
backoff_handler_keep_closed(s, t) == s

\* client.py:168-173: the session after the handler ran with details["tries"] = t
backoff_handler(s, t) == IF ShouldReset(t) THEN None ELSE s

\* The wrapper's except branch: draw the wait, call on_backoff, sleep.
Backoff ==
    /\ pc = "backoff"
    /\ seconds' \in Jitter(backoff_wait_generator)
    /\ session' = backoff_handler(session, tries)
    /\ resets' = IF ShouldReset(tries) THEN resets + 1 ELSE resets
    /\ handlerCalls' = handlerCalls + 1
    /\ lastClosed' = IF ShouldReset(tries) THEN session ELSE lastClosed
    /\ error' = NoError
    /\ response' = NoResponse
    /\ warned' = FALSE
    /\ pc' = "sleep"
    /\ UNCHANGED << configVars, next_page_token, params, tries, yielded,
                    jsonCalls, requestsMade, sentTokens, nonEmptyPages,
                    hookVars, confVars,
                    treeVars >>

\* The sleep ends and the wrapper loops to the next attempt.
Wake ==
    /\ pc = "sleep"
    /\ seconds' = 0
    /\ pc' = "send"
    /\ UNCHANGED << configVars, next_page_token, params, tries, session, resets,
                    handlerCalls, response, error, yielded, jsonCalls, warned,
                    requestsMade, sentTokens, nonEmptyPages, lastClosed,
                    hookVars, confVars,
                    treeVars >>

\* "yield from self.parse_response(resp)"
Parse ==
    /\ pc = "parse"
    /\ LET p == parse_response(response, tolerated_http_errors)
       IN /\ yielded' = p.records
          /\ jsonCalls' = jsonCalls + p.json
          /\ error' = IF p.exc = "none" THEN NoError ELSE [kind |-> p.exc]
          /\ pc' = IF p.exc = "none" THEN "paginate" ELSE "failed"
          /\ nonEmptyPages' = IF p.records > 0 THEN nonEmptyPages + 1
                              ELSE nonEmptyPages
    /\ UNCHANGED << configVars, next_page_token, params, tries, session, resets,
                    handlerCalls, response, seconds, warned, requestsMade,
                    sentTokens, lastClosed,
                    hookVars, confVars,
                    treeVars >>

\* The page decision: the loop ends when the hook returns no token.
Paginate ==
    /\ pc = "paginate"
    /\ LET n == get_next_page_token(response, next_page_token, has_pagination)
       IN /\ jsonCalls' = jsonCalls + n.json
          /\ error' = IF n.exc = "none" THEN NoError ELSE [kind |-> n.exc]
          /\ next_page_token' = IF n.exc = "none" THEN n.token
                                ELSE next_page_token
          /\ pc' = IF n.exc # "none" THEN "failed"
                   ELSE IF Truthy(n.token) THEN "prepare" ELSE "done"
    /\ UNCHANGED << configVars, params, tries, session, resets, handlerCalls,
                    response, seconds, yielded, warned, requestsMade,
                    sentTokens, nonEmptyPages, lastClosed,
                    hookVars, confVars,
                    treeVars >>

Next ==
    \/ Prepare
    \/ AttemptNetworkError
    \/ AttemptResponse
    \/ Backoff
    \/ Wake
    \/ Parse
    \/ Paginate

Spec == Init /\ [][Next]_vars

(***************************************************************************)
(* The hooks as pure functions: a response, a stream configuration and a   *)
(* previous token are drawn, and one hook is applied to them.              *)
(***************************************************************************)
HookStatuses == {200, 302, 400, 401, 404, 429, 499, 500, 503, 599, 600}
HookReasons == {"reason A", "reason B"}
HookResponses == [status_code : HookStatuses, reason : HookReasons, body : Bodies]
ToleratedSets == {DefaultTolerated, {401, 404}, {401, 503}}
ExtraRetrySets == {DefaultExtraRetry, {401, 429}}
PreviousTokens == {None} \cup (2..MaxToken)

InitHooks ==
    /\ ConfIdle
    /\ stream \in Streams
    /\ tolerated_http_errors \in ToleratedSets
    /\ extra_retry_statuses \in ExtraRetrySets
    /\ has_pagination \in BOOLEAN
    /\ pc = "hooks"
    /\ response \in HookResponses
    /\ hookIn \in PreviousTokens
    /\ hookOut = NoHook
    /\ next_page_token = None
    /\ params = NoParams
    /\ tries = 0
    /\ session = None
    /\ resets = 0
    /\ handlerCalls = 0
    /\ lastClosed = None
    /\ error = NoError
    /\ seconds = 0
    /\ yielded = 0
    /\ jsonCalls = 0
    /\ warned = FALSE
    /\ requestsMade = 0
    /\ sentTokens = << >>
    /\ nonEmptyPages = 0

syncVars == << next_page_token, params, tries, session, resets, handlerCalls,
               response, error, seconds, yielded, jsonCalls, warned,
               requestsMade, sentTokens, nonEmptyPages, lastClosed >>

ApplyValidate ==
    /\ pc = "hooks"
    /\ hookOut' = [hook |-> "validate_response",
                   result |-> validate_response(response, tolerated_http_errors,
                                                extra_retry_statuses)]
    /\ pc' = "hooked"
    /\ UNCHANGED << configVars, syncVars, hookIn, confVars, treeVars >>

ApplyParse ==
    /\ pc = "hooks"
    /\ hookOut' = [hook |-> "parse_response",
                   result |-> parse_response(response, tolerated_http_errors)]
    /\ pc' = "hooked"
    /\ UNCHANGED << configVars, syncVars, hookIn, confVars, treeVars >>

ApplyNextPageToken ==
    /\ pc = "hooks"
    /\ hookOut' = [hook |-> "get_next_page_token",
                   result |-> get_next_page_token(response, hookIn,
                                                  has_pagination)]
    /\ pc' = "hooked"
    /\ UNCHANGED << configVars, syncVars, hookIn, confVars, treeVars >>

NextHooks ==
    \/ ApplyValidate
    \/ ApplyParse
    \/ ApplyNextPageToken

SpecHooks == InitHooks /\ [][NextHooks]_vars

(***************************************************************************)
(* Claims about the backoff wrapper and the session (checked under Spec).  *)
(***************************************************************************)

\* C1 (as stated): the session is torn down on the transition from try 5 to
\* try 6, i.e. once five attempts have failed and the sixth is about to be
\* sent, the session has been closed once and discarded.
C1_ResetBetweenFifthAndSixth ==
    (tries = 5 /\ pc \in {"sleep", "send"}) => (resets = 1 /\ session = None)

\* C1 (amended): for a request whose first six attempts fail retriably, the
\* session is torn down exactly once, by the backoff that follows the sixth
\* failure (the transition from try 6 to try 7): tries 1 to 6 all run on the
\* session the request started with, and try 7 runs on a session created for
\* it.
C1_ResetBetweenSixthAndSeventh ==
    /\ (tries <= 5 \/ (tries = 6 /\ pc = "backoff"))
           => (resets = 0 /\ session \in {None, 0, 1})
    /\ (tries >= 1 /\ tries <= 6 /\ pc = "backoff") => session \in {0, 1}
    /\ (tries = 6 /\ pc \in {"sleep", "send"}) => (resets = 1 /\ session = None)
    /\ (tries = 7 /\ pc \notin {"sleep", "send"}) => (resets = 1 /\ session = 7)

C1_Witness ==
    /\ tries = 7
    /\ pc = "parse"
    /\ resets = 1
    /\ session = 7
    /\ handlerCalls = 6

\* C2 (as stated): every wait between two attempts lasts 10 seconds.
C2_WaitIsTenSeconds == pc = "sleep" => seconds = 10

\* C2 (amended): a retriable failure is retried after a wait of at most 10
\* seconds (the wait generator's constant 10, cut to a random part of it by
\* the jitter the backoff wrapper applies by default); at most 9999 attempts
\* are made; an attempt that succeeds within the ceiling leaves no error; the
\* 9999th failure propagates and nothing more is attempted.
C2_RetryUntilCeiling ==
    /\ backoff_wait_generator = 10
    /\ pc = "sleep" => (seconds >= 0 /\ seconds <= 10)
    /\ tries <= 9999
    /\ pc \in {"backoff", "sleep"} => tries < 9999
    /\ pc = "backoff" => error.kind \in RetriedExceptions
    /\ pc = "parse" => error = NoError
    /\ (pc = "failed" /\ error.kind \in RetriedExceptions)
           => (tries = 9999 /\ handlerCalls = 9998 /\ ~ENABLED Next)

C2_Witness ==
    /\ pc = "failed"
    /\ tries = 9999
    /\ error.kind = "RetriableAPIError"

\* C7: a response classified fatal ends the sync at once: the failing attempt
\* is followed by no backoff, no session reset and no further attempt, so a
\* request whose first response is fatal was attempted exactly once.
C7_FatalNeverRetried ==
    error.kind = "FatalAPIError" =>
        /\ pc = "failed"
        /\ ~ENABLED Next
        /\ response.status_code \notin tolerated_http_errors
        /\ response.status_code \notin extra_retry_statuses
        /\ response.status_code >= 400 /\ response.status_code < 500
        /\ handlerCalls = tries - 1
        /\ session # None
        /\ tries = 1 => (handlerCalls = 0 /\ resets = 0)

C7_Witness ==
    /\ pc = "failed"
    /\ error.kind = "FatalAPIError"
    /\ tries = 1
    /\ handlerCalls = 0

(***************************************************************************)
(* Claims about the hooks as functions (checked under SpecHooks).          *)
(***************************************************************************)
Validated == hookOut.hook = "validate_response"
Parsed == hookOut.hook = "parse_response"
Paged == hookOut.hook = "get_next_page_token"
ClientError(st) == 400 <= st /\ st < 500
ServerError(st) == 500 <= st /\ st < 600

\* C3 (as stated): validate_response raises a fatal error for every status
\* code in 400-499 that is not in the tolerated set.
C3_ClientErrorIsFatal ==
    (Validated /\ ClientError(response.status_code)
        /\ response.status_code \notin tolerated_http_errors)
    => hookOut.result.kind = "FatalAPIError"

\* C3 (amended): validate_response raises a fatal error for every status code
\* in 400-499 that is neither in the tolerated set nor in the extra-retry set.
C3_ClientErrorNotRetriedIsFatal ==
    (Validated /\ ClientError(response.status_code)
        /\ response.status_code \notin tolerated_http_errors
        /\ response.status_code \notin extra_retry_statuses)
    => hookOut.result.kind = "FatalAPIError"

C3_Witness ==
    /\ Validated
    /\ response.status_code = 400
    /\ tolerated_http_errors = DefaultTolerated
    /\ extra_retry_statuses = DefaultExtraRetry
    /\ hookOut.result.kind = "FatalAPIError"

\* C4: for every status code outside the tolerated set that is in 500-599 or
\* in the extra-retry set (a 4xx code of that set included), validate_response
\* raises a retriable error whose message carries the response's reason.
C4_RetriableCarriesReason ==
    (Validated /\ response.status_code \notin tolerated_http_errors
        /\ (ServerError(response.status_code)
            \/ response.status_code \in extra_retry_statuses))
    => /\ hookOut.result.kind = "RetriableAPIError"
       /\ hookOut.result.msg.reason = response.reason
       /\ hookOut.result.msg.status = response.status_code

C4_Witness ==
    /\ Validated
    /\ response.status_code = 429
    /\ response.reason = "reason B"
    /\ hookOut.result.kind = "RetriableAPIError"
    /\ hookOut.result.msg.reason = "reason B"

\* C5: for every status code in the tolerated set, parse_response yields no
\* record and raises nothing, and validate_response raises nothing and logs a
\* warning, also when the code is a 4xx, a 5xx or in the extra-retry set.
C5_ToleratedIsEmptySuccess ==
    response.status_code \in tolerated_http_errors =>
        /\ Validated => (hookOut.result.kind = "none" /\ hookOut.result.warned)
        /\ Parsed => (hookOut.result.records = 0 /\ hookOut.result.exc = "none")

C5_Witness ==
    /\ Parsed
    /\ response.status_code = 401
    /\ response.status_code \in tolerated_http_errors
    /\ response.status_code \in extra_retry_statuses
    /\ response.body = NotJson
    /\ hookOut.result.records = 0

\* C8: with pagination enabled and n the record count at the extraction path,
\* get_next_page_token returns None when n = 0, whatever the previous token,
\* and when n > 0 it returns previous_token + 1, or 2 when there is none.
C8_NextPageToken ==
    (Paged /\ has_pagination /\ response.body # NotJson) =>
        /\ hookOut.result.exc = "none"
        /\ RecordsLen(response.body) = 0 => hookOut.result.token = None
        /\ (RecordsLen(response.body) > 0 /\ hookIn # None)
               => hookOut.result.token = hookIn + 1
        /\ (RecordsLen(response.body) > 0 /\ hookIn = None)
               => hookOut.result.token = 2

C8_Witness ==
    /\ Paged
    /\ has_pagination
    /\ hookIn = 3
    /\ response.body = 2
    /\ hookOut.result.token = 4

(***************************************************************************)
(* Claims about the page loop (checked under Spec and FairSpec).           *)
(***************************************************************************)

\* C6: a response with a tolerated status, handled by validate_response,
\* parse_response and the page decision, ends with no record, no exception
\* and no attempt to parse its body as JSON, for every stream and body.
C6_ToleratedFullyAbsorbed ==
    (response.status_code \in tolerated_http_errors
        /\ pc \in {"parse", "paginate", "prepare", "done", "failed"})
    => (error = NoError /\ yielded = 0 /\ jsonCalls = 0 /\ pc # "failed")

\* C9: with has_pagination = FALSE, get_next_page_token returns None for
\* every response and every previous token, so a sync of that stream makes
\* exactly one request.
C9_UnpaginatedOneRequest ==
    ~has_pagination =>
        /\ \A r \in Responses, t \in PreviousTokens :
               get_next_page_token(r, t, has_pagination)
                   = [token |-> None, exc |-> "none", json |-> 0]
        /\ next_page_token = None
        /\ requestsMade <= 1
        /\ sentTokens \in {<< >>, << None >>}
        /\ pc = "done" => requestsMade = 1

C9_Witness ==
    /\ ~has_pagination
    /\ pc = "done"
    /\ requestsMade = 1
    /\ response.body = MaxRecords
    /\ yielded = MaxRecords

\* The page loop of a paginated stream: the tokens sent are None, 2, 3, ...;
\* a request follows only a page that held records; the loop ends on the
\* first page without records, after one request more than pages with records.
C10_Sequential ==
    has_pagination =>
        /\ requestsMade = Len(sentTokens)
        /\ \A i \in 1..Len(sentTokens) :
               sentTokens[i] = IF i = 1 THEN None ELSE i
        /\ (requestsMade > 0 /\ pc # "prepare")
               => params.page = sentTokens[requestsMade]
        /\ (pc = "prepare" /\ requestsMade > 0)
               => (yielded > 0 /\ nonEmptyPages = requestsMade)
        /\ pc = "done" => (yielded = 0 /\ requestsMade = nonEmptyPages + 1)

Terminated == pc \in {"done", "failed"}

\* C10: the page loop of a paginated stream is strictly sequential (tokens
\* None, 2, 3, ... in steps of 1), sends nothing after an empty page, stops
\* after exactly k + 1 requests when k pages with records are followed by an
\* empty one (k = 0: at once), and every sync eventually stops.
C10_PageLoopTerminates == []C10_Sequential /\ <>Terminated

C10_Witness ==
    /\ has_pagination
    /\ pc = "done"
    /\ nonEmptyPages = MaxPages
    /\ requestsMade = MaxPages + 1
    /\ sentTokens[requestsMade] = MaxPages + 1

\* The sync is one sequential loop: a step that can be taken is taken.
FairSpec == Spec /\ WF_vars(Next)

(***************************************************************************)
(* Claims about repeated session resets (checked under Spec).              *)
(***************************************************************************)
PostAttempt == pc \in {"backoff", "parse", "paginate", "done", "failed"}
    \/ (pc = "prepare" /\ requestsMade > 0)
GaveUp == pc = "failed" /\ error.kind \in RetriedExceptions

\* Retriable failures of the current request whose handling is over: the
\* backoff ran, or the wrapper gave up.
FailuresHandled ==
    IF pc \in {"sleep", "send"} \/ GaveUp THEN tries ELSE tries - 1

\* C19 (as stated): a request with n >= 6 consecutive retriable failures has
\* caused n - 5 session teardowns, and none with at most 5 failures.
C19_TeardownsAreFailuresMinusFive ==
    (pc \in {"sleep", "send"} \/ GaveUp) =>
        resets = IF FailuresHandled >= 6 THEN FailuresHandled - 5 ELSE 0

\* C19 (amended): the handler closes and discards the session on every backoff
\* whose try count exceeds 5, so n consecutive retriable failures with
\* 6 <= n < 9999 cause n - 5 teardowns (the 9999th failure gives up without a
\* backoff, leaving 9993), each attempt from the 7th on runs on a session
\* created for it, and the count restarts with each request: a request with at
\* most 5 failures causes no reset whatever earlier requests did.
C19_ResetOnEveryLateBackoff ==
    /\ PostAttempt => handlerCalls = tries - 1
    /\ pc \in {"sleep", "send"} => handlerCalls = tries
    /\ resets = IF handlerCalls > 5 THEN handlerCalls - 5 ELSE 0
    /\ (pc \in {"sleep", "send"} /\ tries >= 6 /\ tries < 9999)
           => resets = tries - 5
    /\ GaveUp => (tries = 9999 /\ resets = 9993)
    /\ (PostAttempt /\ tries >= 7) => session = tries
    /\ (FailuresHandled <= 5 /\ ~GaveUp) => resets = 0

C19_Witness ==
    /\ requestsMade = 2
    /\ pc = "parse"
    /\ tries = 9
    /\ resets = 3
    /\ session = 9

\* C20: the session exists whenever an attempt is sent and whenever the
\* handler closes it, and no attempt is sent on a session that was closed: a
\* reset leaves no session only until the next attempt creates one.
C20_SessionLiveWhenUsed ==
    /\ pc = "backoff" => session # None
    /\ (PostAttempt /\ tries >= 1) => (session # None /\ session # lastClosed)
    /\ pc = "send" => requests_session(session, tries + 1) \notin {None, lastClosed}
    /\ (session = None /\ requestsMade > 0) => (pc \in {"sleep", "send"})
    /\ (session = None /\ tries > 0) => (lastClosed # None /\ resets > 0)

C20_Witness ==
    /\ pc = "backoff"
    /\ tries = 8
    /\ session = 8
    /\ lastClosed = 7
    /\ resets = 2

(***************************************************************************)
(* ConferencesStream (streams.py:52-100): repeated syncs of the stream, its *)
(* start_time window and the last_date it keeps in its state. A request is *)
(* sent through the same backoff wrapper as above; here a retried attempt   *)
(* is one step and the exhaustion of the retry ceiling another.             *)
(***************************************************************************)
MaxSyncs == 3           \* syncs of the stream in one run
MaxConfFailures == 2    \* retriable failures the API inflicts on one request
SecondsPerDay == 86400

\* The instants the wall clock is read at, in order: noon and midnight around
\* the epoch, and 2024-03-15 00:00:00, 10:00:00, 23:59:59 and 2024-03-16.
TimePoints == << 43200, 86400, 129600, 1710460800, 1710496800, 1710547199,
                 1710547200 >>
LaterTimes(now) == { TimePoints[i] : i \in { j \in 1..Len(TimePoints) :
                                               TimePoints[j] > now } }

\* datetime.fromtimestamp(ts, timezone.utc), as a day number and the seconds
\* into that day; .replace(hour=0, minute=0, second=0, microsecond=0);
\* the comparison; "- timedelta(days=1)"; int(.timestamp())
fromtimestamp(ts) == [day |-> ts \div SecondsPerDay, sec |-> ts % SecondsPerDay]
replace_midnight(d) == [day |-> d.day, sec |-> 0]
Epoch == [day |-> 0, sec |-> 0]
IsAfter(a, b) == a.day > b.day \/ (a.day = b.day /\ a.sec > b.sec)
minus_one_day(d) == [day |-> d.day - 1, sec |-> d.sec]
timestamp(d) == d.day * SecondsPerDay + d.sec

\* state.get('last_date', 0)
state_get(ld) == IF ld = None THEN 0 ELSE ld

\* Mutation: the look-back is applied at the epoch too.
conferences_start_time_from_epoch(ld) ==
    LET d == replace_midnight(fromtimestamp(state_get(ld)))
    IN timestamp(IF IsAfter(d, Epoch) \/ d = Epoch THEN minus_one_day(d) ELSE d)

\* Mutation: the day is added instead of subtracted.
conferences_start_time_forward(ld) ==
    LET d == replace_midnight(fromtimestamp(state_get(ld)))
    IN timestamp(IF IsAfter(d, Epoch) THEN [day |-> d.day + 1, sec |-> d.sec]
                 ELSE d)

\* streams.py:72-77 and :84
conferences_start_time(ld) ==
    LET d == replace_midnight(fromtimestamp(state_get(ld)))
    IN timestamp(IF IsAfter(d, Epoch) THEN minus_one_day(d) ELSE d)

\* streams.py:67-87
conferences_get_url_params(ld, token) ==
    [page_key |-> page_key("conferences"),
     page |-> IF Truthy(token) THEN token ELSE None,
     per_page |-> IF Truthy(per_page) THEN per_page ELSE None,
     start_time |-> conferences_start_time(ld)]

\* Mutation: the timestamp taken when get_records started is stored.
current_timestamp_at_start(now, started) == started

\* streams.py:99: the wall clock read after the loop
current_timestamp(now, started) == now

\* Mutation: the state is written in the loop, after each page.
last_date_after_page_written(ld, now) == now

\* streams.py:92-97: the loop over the records does not touch the state
last_date_after_page(ld, now) == ld

\* Mutation: the state is written on the way out, as in a finally clause.
last_date_on_abort_written(ld, now) == now

\* streams.py:92-100: an exception or a close of the generator leaves
\* get_records before lines 99-100 run
last_date_on_abort(ld, now) == ld

baseVars == << stream, tolerated_http_errors, extra_retry_statuses,
               has_pagination, pc, next_page_token, params, tries, session,
               resets, handlerCalls, response, error, seconds, yielded,
               jsonCalls, warned, requestsMade, sentTokens, nonEmptyPages,
               lastClosed, hookIn, hookOut >>

\* The variables of Spec and SpecHooks at rest.
BaseIdle ==
    /\ tolerated_http_errors = DefaultTolerated
    /\ extra_retry_statuses = DefaultExtraRetry
    /\ pc = "off"
    /\ next_page_token = None
    /\ params = NoParams
    /\ tries = 0
    /\ session = None
    /\ resets = 0
    /\ handlerCalls = 0
    /\ lastClosed = None
    /\ response = NoResponse
    /\ error = NoError
    /\ seconds = 0
    /\ yielded = 0
    /\ jsonCalls = 0
    /\ warned = FALSE
    /\ requestsMade = 0
    /\ sentTokens = << >>
    /\ nonEmptyPages = 0
    /\ hookIn = None
    /\ hookOut = NoHook

\* The state file holds no last_date, or the 0 a first run may be given.
InitConf ==
    /\ BaseIdle
    /\ TreeIdle
    /\ stream = "conferences"
    /\ has_pagination = TRUE
    /\ clock = TimePoints[1]
    /\ last_date \in {None, 0}
    /\ cpc = "idle"
    /\ ctoken = None
    /\ cparams = NoConfParams
    /\ ctries = 0
    /\ cpageLeft = 0
    /\ cpagesServed = 0
    /\ conf = NoConf

\* Time passes.
Tick ==
    /\ \E t \in LaterTimes(clock) : clock' = t
    /\ UNCHANGED << baseVars, treeVars, last_date, cpc, ctoken, cparams, ctries,
                    cpageLeft, cpagesServed, conf >>

\* get_records is entered (streams.py:90-92): a sync starts after the
\* previous one ended, whichever way it ended.
ConfStart ==
    /\ cpc \in {"idle", "finished", "failed", "stopped"}
    /\ conf.syncs < MaxSyncs
    /\ cpc' = "prepare"
    /\ ctoken' = None
    /\ ctries' = 0
    /\ cpageLeft' = 0
    /\ cpagesServed' = 0
    /\ cparams' = NoConfParams
    /\ conf' = [syncs |-> conf.syncs + 1, writes |-> 0, started |-> clock,
                before |-> last_date, firstStart |-> None, lastYield |-> None,
                prevStart |-> conf.firstStart,
                prevAborted |-> cpc \in {"failed", "stopped"}]
    /\ UNCHANGED << baseVars, treeVars, clock, last_date >>

\* prepare_request: get_url_params reads the state for every page.
ConfPrepare ==
    /\ cpc = "prepare"
    /\ cparams' = conferences_get_url_params(last_date, ctoken)
    /\ ctries' = 0
    /\ conf' = [conf EXCEPT !.firstStart =
                    IF @ = None THEN cparams'.start_time ELSE @]
    /\ cpc' = "send"
    /\ UNCHANGED << baseVars, treeVars, clock, last_date, ctoken, cpageLeft,
                    cpagesServed >>

\* An attempt fails retriably and the wrapper sends the prepared request again.
ConfRetry ==
    /\ cpc = "send"
    /\ ctries < MaxConfFailures
    /\ request_decorator("RetriableAPIError", ctries + 1) = "backoff"
    /\ ctries' = ctries + 1
    /\ UNCHANGED << baseVars, treeVars, clock, last_date, cpc, ctoken, cparams,
                    cpageLeft, cpagesServed, conf >>

\* Every remaining attempt fails: the retry ceiling is reached and the error
\* leaves get_records.
ConfGiveUp ==
    /\ cpc = "send"
    /\ request_decorator("RetriableAPIError", backoff_max_tries) = "failed"
    /\ ctries' = backoff_max_tries
    /\ last_date' = last_date_on_abort(last_date, clock)
    /\ cpc' = "failed"
    /\ UNCHANGED << baseVars, treeVars, clock, ctoken, cparams, cpageLeft, cpagesServed,
                    conf >>

\* An attempt receives a response validate_response classifies fatal.
ConfFatal ==
    /\ cpc = "send"
    /\ \E st \in Statuses :
        /\ validate_response([status_code |-> st, reason |-> Reason(st),
                              body |-> NotJson],
                             tolerated_http_errors, extra_retry_statuses).kind
               = "FatalAPIError"
        /\ request_decorator("FatalAPIError", ctries + 1) = "failed"
    /\ ctries' = ctries + 1
    /\ last_date' = last_date_on_abort(last_date, clock)
    /\ cpc' = "failed"
    /\ UNCHANGED << baseVars, treeVars, clock, ctoken, cparams, cpageLeft, cpagesServed,
                    conf >>

\* An attempt receives a page of n records.
ConfResponse ==
    /\ cpc = "send"
    /\ \E n \in 0..MaxRecords :
        /\ n > 0 => cpagesServed < MaxPages
        /\ cpageLeft' = n
        /\ yielded' = n
        /\ cpagesServed' = IF n > 0 THEN cpagesServed + 1 ELSE cpagesServed
    /\ ctries' = ctries + 1
    /\ cpc' = "page"
    /\ UNCHANGED << stream, tolerated_http_errors, extra_retry_statuses,
                    has_pagination, pc, next_page_token, params, tries, session,
                    resets, handlerCalls, response, error, seconds, jsonCalls,
                    warned, requestsMade, sentTokens, nonEmptyPages, lastClosed,
                    hookIn, hookOut, clock, last_date, ctoken, cparams, conf,
                    treeVars >>

\* streams.py:92-97: the next record of the page is yielded to the consumer.
ConfYield ==
    /\ cpc = "page"
    /\ cpageLeft > 0
    /\ cpageLeft' = cpageLeft - 1
    /\ conf' = [conf EXCEPT !.lastYield = clock]
    /\ cpc' = "yielded"
    /\ UNCHANGED << baseVars, treeVars, clock, last_date, ctoken, cparams, ctries,
                    cpagesServed >>

\* The consumer asks for the next record.
ConfResume ==
    /\ cpc = "yielded"
    /\ cpc' = "page"
    /\ UNCHANGED << baseVars, treeVars, clock, last_date, ctoken, cparams, ctries,
                    cpageLeft, cpagesServed, conf >>

\* The consumer closes the generator instead of asking for the next record.
ConfStop ==
    /\ cpc = "yielded"
    /\ last_date' = last_date_on_abort(last_date, clock)
    /\ cpc' = "stopped"
    /\ UNCHANGED << baseVars, treeVars, clock, ctoken, cparams, ctries, cpageLeft,
                    cpagesServed, conf >>

\* The page is consumed: get_next_page_token decides whether the loop goes on.
ConfPaginate ==
    /\ cpc = "page"
    /\ cpageLeft = 0
    /\ LET n == get_next_page_token([status_code |-> 200, reason |-> Reason(200),
                                     body |-> yielded], ctoken, has_pagination)
       IN /\ ctoken' = n.token
          /\ cpc' = IF Truthy(n.token) THEN "prepare" ELSE "write"
    /\ last_date' = last_date_after_page(last_date, clock)
    /\ UNCHANGED << baseVars, treeVars, clock, cparams, ctries, cpageLeft, cpagesServed,
                    conf >>

\* streams.py:99-100: the loop has ended; the wall clock is stored.
ConfWrite ==
    /\ cpc = "write"
    /\ last_date' = current_timestamp(clock, conf.started)
    /\ conf' = [conf EXCEPT !.writes = @ + 1]
    /\ cpc' = "finished"
    /\ UNCHANGED << baseVars, treeVars, clock, ctoken, cparams, ctries, cpageLeft,
                    cpagesServed >>

NextConf ==
    \/ Tick
    \/ ConfStart
    \/ ConfPrepare
    \/ ConfRetry
    \/ ConfGiveUp
    \/ ConfFatal
    \/ ConfResponse
    \/ ConfYield
    \/ ConfResume
    \/ ConfStop
    \/ ConfPaginate
    \/ ConfWrite

SpecConf == InitConf /\ [][NextConf]_vars

(***************************************************************************)
(* SpecTree: one sync of a parent stream and, for each of its records, of  *)
(* its child streams.  The order is the one of singer_sdk's _sync_records: *)
(* the record generator is suspended while _sync_children runs every child *)
(* stream to completion for the context of the record just yielded.        *)
(***************************************************************************)
MaxRecordIds == 2
MaxTreeFailures == 1

RecordIds == 1..MaxRecordIds
ParentRecords == [id : RecordIds, channel_id : RecordIds]

\* Mutation: the conference context carries the record's channel_id.
get_child_context_of_channel(p, record) ==
    IF p = "channels"
    THEN [channel_id |-> record.channel_id, conference_id |-> None]
    ELSE [channel_id |-> None, conference_id |-> record.channel_id]

\* streams.py:23-25 and streams.py:62-64
get_child_context(p, record) ==
    IF p = "channels"
    THEN [channel_id |-> record.channel_id, conference_id |-> None]
    ELSE [channel_id |-> None, conference_id |-> record.id]

\* The child classes of a parent, in the order streams.py declares them.
declared_children(p) ==
    IF p = "channels"
    THEN << "channels_subscribers", "channels_admins" >>
    ELSE << "conferences_handouts", "conferences_surveys",
            "conferences_presenters", "conferences_attendees",
            "conferences_registrants", "conferences_registrations_live",
            "conferences_attendees_live", "conferences_registrations_no_shows",
            "conferences_registrations_qa", "conferences_attendees_on_demand" >>

Reverse(q) == [i \in DOMAIN q |-> q[Len(q) + 1 - i]]

\* singer_sdk walks the list child_streams in the order the tap registered
\* the streams, which streams.py does not fix: the order of declaration and
\* its reverse are both taken.
child_orders(p) == {declared_children(p), Reverse(declared_children(p))}

\* The context key a path names between braces.
PathKey(s) ==
    IF \E i \in DOMAIN path(s) : path(s)[i] = "{channel_id}" THEN "channel_id"
    ELSE IF \E i \in DOMAIN path(s) : path(s)[i] = "{conference_id}"
    THEN "conference_id"
    ELSE "none"

\* singer_sdk get_url: the braces of the path are filled from the context.
get_url(s, context) ==
    [path |-> path(s),
     id |-> IF PathKey(s) = "channel_id" THEN context.channel_id
            ELSE IF PathKey(s) = "conference_id" THEN context.conference_id
            ELSE None]

\* prepare_request of a stream: streams.py:67-87 for conferences,
\* client.py:82-93 for the others.
tree_url_params(s, token) ==
    IF s = "conferences" THEN conferences_get_url_params(last_date, token)
    ELSE get_url_params(s, token)

InitTree ==
    /\ BaseIdle
    /\ clock = TimePoints[1]
    /\ last_date = None
    /\ cpc = "idle"
    /\ ctoken = None
    /\ cparams = NoConfParams
    /\ ctries = 0
    /\ cpageLeft = 0
    /\ cpagesServed = 0
    /\ conf = NoConf
    /\ stream = "conferences"
    /\ has_pagination = TRUE
    /\ tpc = "parent_prepare"
    /\ tparent \in ParentStreams
    /\ tp = NoParentLoop
    /\ tcontext = NoContext
    /\ tdone = {}
    /\ torder \in child_orders(tparent)
    /\ tc = NoChildLoop

\* The parent's request for its next page is prepared.
TreeParentPrepare ==
    /\ tpc = "parent_prepare"
    /\ tp' = [tp EXCEPT !.params = tree_url_params(tparent, tp.token),
                        !.tries = 0]
    /\ tpc' = "parent_send"
    /\ UNCHANGED << baseVars, confVars, tparent, tcontext, tdone, torder, tc >>

\* A retriable failure of the parent's request is retried.
TreeParentRetry ==
    /\ tpc = "parent_send"
    /\ tp.tries < MaxTreeFailures
    /\ tp' = [tp EXCEPT !.tries = tp.tries + 1]
    /\ UNCHANGED << baseVars, confVars, tpc, tparent, tcontext, tdone, torder, tc >>

\* A fatal error, or the end of the retries, aborts the sync.
TreeParentFail ==
    /\ tpc = "parent_send"
    /\ tpc' = "failed"
    /\ UNCHANGED << baseVars, confVars, tparent, tp, tcontext, tdone, torder, tc >>

\* The parent's page arrives with n records.
TreeParentResponse ==
    /\ tpc = "parent_send"
    /\ \E n \in 0..MaxRecords :
        /\ n > 0 => tp.served < MaxPages
        /\ tp' = [tp EXCEPT !.len = n, !.left = n,
                            !.served = tp.served + (IF n > 0 THEN 1 ELSE 0)]
    /\ tpc' = "parent_page"
    /\ UNCHANGED << baseVars, confVars, tparent, tcontext, tdone, torder, tc >>

\* request_records yields the next record of the page; _sync_records derives
\* the child context from it before any child is synced.
TreeParentYield ==
    /\ tpc = "parent_page"
    /\ tp.left > 0
    /\ \E record \in ParentRecords :
        /\ tp' = [tp EXCEPT !.left = tp.left - 1, !.record = record]
        /\ tcontext' = get_child_context(tparent, record)
    /\ tdone' = {}
    /\ tpc' = "children"
    /\ UNCHANGED << baseVars, confVars, tparent, torder, tc >>

\* _sync_children: the sync of one more child stream starts.
TreeChildStart ==
    /\ tpc = "children"
    /\ Cardinality(tdone) < Len(torder)
    /\ tc' = [NoChildLoop EXCEPT !.stream = torder[Cardinality(tdone) + 1]]
    /\ tpc' = "child_prepare"
    /\ UNCHANGED << baseVars, confVars, tparent, tp, tcontext, tdone, torder >>

\* The child's request for its next page is prepared from the context.
TreeChildPrepare ==
    /\ tpc = "child_prepare"
    /\ tc' = [tc EXCEPT !.params = tree_url_params(tc.stream, tc.token),
                        !.url = get_url(tc.stream, tcontext),
                        !.tries = 0,
                        !.requests = IF tc.requests < MaxPages + 1
                                     THEN tc.requests + 1 ELSE tc.requests]
    /\ tpc' = "child_send"
    /\ UNCHANGED << baseVars, confVars, tparent, tp, tcontext, tdone, torder >>

\* A retriable failure of the child's request is retried.
TreeChildRetry ==
    /\ tpc = "child_send"
    /\ tc.tries < MaxTreeFailures
    /\ tc' = [tc EXCEPT !.tries = tc.tries + 1]
    /\ UNCHANGED << baseVars, confVars, tpc, tparent, tp, tcontext, tdone, torder >>

\* A fatal error, or the end of the retries, aborts the whole sync.
TreeChildFail ==
    /\ tpc = "child_send"
    /\ tpc' = "failed"
    /\ UNCHANGED << baseVars, confVars, tparent, tp, tcontext, tdone, torder, tc >>

\* The child's page arrives with n records, which are emitted.
TreeChildResponse ==
    /\ tpc = "child_send"
    /\ \E n \in 0..MaxRecords :
        /\ n > 0 => tc.served < MaxPages
        /\ tc' = [tc EXCEPT !.len = n,
                            !.served = tc.served + (IF n > 0 THEN 1 ELSE 0)]
    /\ tpc' = "child_page"
    /\ UNCHANGED << baseVars, confVars, tparent, tp, tcontext, tdone, torder >>

\* The child's page loop goes on, or the child's sync is complete.
TreeChildPaginate ==
    /\ tpc = "child_page"
    /\ LET n == get_next_page_token([status_code |-> 200, reason |-> Reason(200),
                                     body |-> tc.len],
                                    tc.token, stream_has_pagination(tc.stream))
       IN IF Truthy(n.token)
          THEN /\ tc' = [tc EXCEPT !.token = n.token]
               /\ tpc' = "child_prepare"
               /\ UNCHANGED tdone
          ELSE /\ tdone' = tdone \cup {tc.stream}
               /\ tc' = NoChildLoop
               /\ tpc' = "children"
    /\ UNCHANGED << baseVars, confVars, tparent, tp, tcontext, torder >>

\* _sync_children has returned: the record generator is resumed.
TreeNextRecord ==
    /\ tpc = "children"
    /\ tdone = child_streams(tparent)
    /\ tpc' = "parent_page"
    /\ UNCHANGED << baseVars, confVars, tparent, tp, tcontext, tdone, torder, tc >>

\* The page is exhausted: the parent's page loop goes on or ends.
TreeParentPaginate ==
    /\ tpc = "parent_page"
    /\ tp.left = 0
    /\ LET n == get_next_page_token([status_code |-> 200, reason |-> Reason(200),
                                     body |-> tp.len],
                                    tp.token, stream_has_pagination(tparent))
       IN IF Truthy(n.token)
          THEN /\ tp' = [tp EXCEPT !.token = n.token]
               /\ tpc' = "parent_prepare"
          ELSE /\ tp' = tp
               /\ tpc' = "finished"
    /\ UNCHANGED << baseVars, confVars, tparent, tcontext, tdone, torder, tc >>

NextTree ==
    \/ TreeParentPrepare
    \/ TreeParentRetry
    \/ TreeParentFail
    \/ TreeParentResponse
    \/ TreeParentYield
    \/ TreeChildStart
    \/ TreeChildPrepare
    \/ TreeChildRetry
    \/ TreeChildFail
    \/ TreeChildResponse
    \/ TreeChildPaginate
    \/ TreeNextRecord
    \/ TreeParentPaginate

SpecTree == InitTree /\ [][NextTree]_vars

(***************************************************************************)
(* Claims about the Conferences window (checked under SpecConf).           *)
(***************************************************************************)
InConfSync == cpc \in {"prepare", "send", "page", "yielded", "write"}
ConfRequested == cpc \in {"send", "page", "yielded"}

\* C11: the start_time of every Conferences request is midnight UTC of the
\* day containing last_date, minus one day when that midnight is after the
\* epoch, and 0 otherwise: 0 for last_date 0 or absent, and
\* 2024-03-14T00:00:00Z (1710374400) for 2024-03-15T10:00:00Z (1710496800).
C11_StartTimeWindow ==
    ConfRequested =>
        LET ld == IF last_date = None THEN 0 ELSE last_date
            midnight == ld - (ld % 86400)
        IN /\ cparams.start_time
                  = IF midnight > 0 THEN midnight - 86400 ELSE 0
           /\ last_date \in {None, 0} => cparams.start_time = 0
           /\ last_date = 1710496800 => cparams.start_time = 1710374400

C11_Witness ==
    /\ cpc = "send"
    /\ last_date = 1710496800
    /\ cparams.start_time = 1710374400

\* C12: last_date changes only by the write that ends a completed sync, which
\* stores the wall clock of that moment, after every page was consumed and
\* every record yielded, once per sync: in a finished sync it is not earlier
\* than the start of the sync nor than the last record.
C12_WrittenOnceAtFinish ==
    /\ [][last_date' # last_date =>
            /\ cpc = "write" /\ cpc' = "finished"
            /\ last_date' = clock
            /\ cpageLeft = 0 /\ ~Truthy(ctoken)
            /\ conf.writes = 0 /\ conf'.writes = 1]_vars
    /\ [](cpc = "finished" =>
            /\ conf.writes = 1
            /\ last_date # None /\ last_date >= conf.started
            /\ last_date <= clock
            /\ conf.lastYield # None => last_date >= conf.lastYield)
    /\ [](conf.writes > 0 => cpc = "finished")

C12_Witness ==
    /\ cpc = "finished"
    /\ conf.writes = 1
    /\ conf.lastYield # None
    /\ conf.lastYield > conf.started
    /\ last_date > conf.lastYield
    /\ last_date = clock

\* C13: across the syncs of a run last_date never decreases, and the
\* start_time derived from it is never later than it.
C13_MonotoneWindow ==
    /\ [][state_get(last_date') >= state_get(last_date)]_vars
    /\ [](conferences_start_time(last_date) <= state_get(last_date))
    /\ [](ConfRequested => cparams.start_time <= state_get(last_date))

C13_Witness ==
    /\ cpc = "finished"
    /\ conf.syncs >= 2
    /\ conf.before # None
    /\ conf.before > 0
    /\ last_date > conf.before
    /\ cparams.start_time < conf.before

\* C17: a sync that ends by a fatal error, by the retry ceiling or by the
\* consumer stopping leaves last_date as it found it, so the next sync asks
\* for the same start_time.
C17_AbortKeepsLastDate ==
    /\ cpc \in {"failed", "stopped"} => (last_date = conf.before /\ conf.writes = 0)
    /\ (conf.prevAborted /\ conf.firstStart # None)
           => conf.firstStart = conf.prevStart

C17_Witness ==
    /\ conf.prevAborted
    /\ cpc = "send"
    /\ clock > conf.started
    /\ conf.firstStart = conf.prevStart
    /\ conf.firstStart > 0

\* C18: within one sync every request, and every retry of it, carries the
\* start_time of the first request: last_date is not written before the page
\* loop has ended.
C18_SameWindowAcrossPages ==
    /\ InConfSync => last_date = conf.before
    /\ (InConfSync /\ conf.firstStart # None)
           => cparams.start_time = conf.firstStart
    /\ ConfRequested => cparams.start_time = conferences_start_time(conf.before)

C18_Witness ==
    /\ cpc = "send"
    /\ ctoken = 3
    /\ ctries > 0
    /\ clock >= conf.started + SecondsPerDay
    /\ conf.firstStart > 0
    /\ cparams.start_time = conf.firstStart

(***************************************************************************)
(* Claims about the traversal of parent and child streams (SpecTree).      *)
(***************************************************************************)
ParentAtWork == tpc \in {"parent_prepare", "parent_send", "parent_page", "finished"}
ChildRequested == tpc \in {"child_send", "child_page"}

\* The identifier the current parent record hands to its children.
RecordIdentifier ==
    IF tparent = "channels" THEN tp.record.channel_id ELSE tp.record.id

\* C14: the traversal is sequential and depth-first.  Every request of a
\* child stream carries the identifier of the parent record being processed;
\* a child is counted as synced only once its page loop has ended; and the
\* parent takes its next record, asks for its next page or finishes only
\* when every child stream has been synced to completion for the record
\* before, with no child request left in flight.
C14_DepthFirst ==
    /\ [](ChildRequested =>
            /\ tc.url.id = RecordIdentifier
            /\ tc.url.id \in RecordIds
            /\ tc.stream \in child_streams(tparent) \ tdone)
    /\ []((ParentAtWork /\ tp.record # NoRecord) =>
            /\ tdone = child_streams(tparent)
            /\ tc = NoChildLoop)
    /\ [][/\ (tdone' # tdone /\ tdone' # {}) =>
                /\ tpc = "child_page"
                /\ tdone' = tdone \cup {tc.stream}
                /\ tc.len = 0 \/ ~stream_has_pagination(tc.stream)
          /\ tp.left' < tp.left =>
                /\ tc = NoChildLoop
                /\ tp.record = NoRecord \/ tdone = child_streams(tparent)]_vars

\* The second record of a page has a child on its second page, in a retry,
\* after other children were synced.
C14_Witness ==
    /\ tpc = "child_send"
    /\ tp.len = 2
    /\ tp.left = 0
    /\ tdone # {}
    /\ tc.token = 2
    /\ tc.tries = 1
    /\ tc.url.id = RecordIdentifier

\* The children of Conferences, if they were k: the context carries the
\* record's id as conference_id; each child is FULL_TABLE and its URL is
\* filled with that id alone; k children are synced per record.
ConferenceChildrenAre(k) ==
    (tparent = "conferences" /\ tp.record # NoRecord) =>
        /\ tcontext = [channel_id |-> None, conference_id |-> tp.record.id]
        /\ ChildRequested =>
            /\ replication_method(tc.stream) = "FULL_TABLE"
            /\ \E i \in DOMAIN tc.url.path : tc.url.path[i] = "{conference_id}"
            /\ \A i \in DOMAIN tc.url.path : tc.url.path[i] # "{channel_id}"
            /\ tc.url.id = tp.record.id
        /\ tpc = "parent_page" => Cardinality(tdone) = k

\* C15 as stated: Conferences has eleven child streams.
C15_ElevenChildren == ConferenceChildrenAre(11)

\* C15: Conferences hands the record's id, as conference_id, to its ten
\* child streams; each of them is FULL_TABLE and its URL path is scoped to
\* that one conference_id.
C15_TenChildren == ConferenceChildrenAre(10)

\* All the children of a conference record have been synced.
C15_Witness ==
    /\ tparent = "conferences"
    /\ tpc = "parent_page"
    /\ tp.record # NoRecord
    /\ tcontext.conference_id = tp.record.id
    /\ Cardinality(tdone) = 10

\* The parameters client.py prepares for a GET stream and a page token.
GetParamsAre(s, token, pr) ==
    /\ pr.per_page = 10
    /\ pr.page_key =
         IF s \in {"conferences_attendees", "conferences_registrations_live",
                   "conferences_attendees_live",
                   "conferences_registrations_no_shows",
                   "conferences_registrations_qa",
                   "conferences_attendees_on_demand"}
         THEN "current_page" ELSE "page"
    /\ (token # None) <=> (pr.page # None)
    /\ token # None => pr.page = token

\* C16: every request of a GET stream carries per_page, and carries the page
\* token under the stream's page_key exactly when there is a token; the
\* first request of a sync carries per_page and no page.
C16_PageParams ==
    /\ (ChildRequested /\ rest_method(tc.stream) = "GET") =>
        /\ GetParamsAre(tc.stream, tc.token, tc.params)
        /\ tc.requests = 1 => (tc.params.page = None /\ tc.params.per_page = 10)
    /\ (tpc = "parent_send" /\ rest_method(tparent) = "GET") =>
        /\ GetParamsAre(tparent, tp.token, tp.params)
        /\ tp.params.page = None

\* The second page of a stream overriding page_key is asked for.
C16_Witness ==
    /\ tpc = "child_send"
    /\ tc.stream = "conferences_attendees"
    /\ tc.requests = 2
    /\ tc.params.page_key = "current_page"
    /\ tc.params.page = 2
    /\ tc.params.per_page = 10

====
